---- MODULE Spec2Model ----
(***************************************************************************)
(* Model of servers/app-servers/python/gunicorn.conf.py: the module-level  *)
(* settings the process manager reads when it loads the file, and the      *)
(* eight lifecycle hooks it calls afterwards.                              *)
(*                                                                         *)
(* Text is a sequence of one-character strings, so that an f-string is a   *)
(* concatenation of its literal parts and its formatted values, and "the   *)
(* record contains the pid" is a substring test on the formatted text.     *)
(* A log is the sequence of the calls made on a log object: a record of    *)
(* the method called (info, debug) and of the message passed.  Whether the *)
(* runtime's logger emits a call at the configured loglevel is the         *)
(* runtime's business, and is not modelled.                                *)
(***************************************************************************)
EXTENDS Integers, Sequences, FiniteSets, TLC

(* ------------------------------ bounds -------------------------------- *)

\* Largest parallelism multiprocessing.cpu_count() reports.
MaxCpu == 2

\* Hook invocations in one run.
MaxCalls == 2

(* ------------------------- values of the inputs ----------------------- *)

\* Python's None.
None == [py |-> "None"]

\* Process ids of the worker descriptors passed to the hooks.
Pids == {7, 4321}

\* A worker descriptor: its pid (its log is worker_log[pid]).
Workers == [pid : Pids]

Methods == {<<"G","E","T">>, <<"P","O","S","T">>}

Paths == {<<"/">>, <<"/","h","e","a","l","t","h">>}

\* A request: req.method and req.path.
Requests == [method : Methods, path : Paths]

\* The WSGI environ handed to post_request.
Environs == {"environ_a", "environ_b"}

\* A response: resp.status.
Responses == [status : {<<"2","0","0">>, <<"4","0","4">>}]

(* ------------------------------- text --------------------------------- *)

DigitChars == <<"0","1","2","3","4","5","6","7","8","9">>

\* str(n) of a Python int, as an f-string formats it: decimal, no padding,
\* a leading "-" for a negative number.
RECURSIVE str_nat(_)
str_nat(n) ==
    IF n < 10 THEN <<DigitChars[n + 1]>>
    ELSE str_nat(n \div 10) \o <<DigitChars[(n % 10) + 1]>>

str_int(n) == IF n < 0 THEN <<"-">> \o str_nat(0 - n) ELSE str_nat(n)

\* t occurs in s as a substring (Python's "t in s").
Contains(s, t) ==
    \E i \in 1..(Len(s) - Len(t) + 1) : SubSeq(s, i, i + Len(t) - 1) = t

(* ------------------------ module-level settings ----------------------- *)

bind == "0.0.0.0:8000"

backlog == 2048

\* Mutant of workers: the "+ 1" left out.
workers_even(cpu_count) == cpu_count * 2

\* workers = multiprocessing.cpu_count() * 2 + 1
workers(cpu_count) == cpu_count * 2 + 1

worker_class == "gevent"

worker_connections == 1000

max_requests == 1000

max_requests_jitter == 50

\* Mutant of timeout: the value given in milliseconds.
timeout_ms == 30 * 1000

timeout == 30

keepalive == 2

limit_request_line == 4096

limit_request_fields == 100

limit_request_field_size == 8190

proc_name == "infokes-api"

accesslog == "/var/log/gunicorn/access.log"

errorlog == "/var/log/gunicorn/error.log"

loglevel == "info"

access_log_format == "%(h)s %(l)s %(u)s %(t)s \"%(r)s\" %(s)s %(b)s \"%(f)s\" \"%(a)s\""

daemon == FALSE

pidfile == "/var/run/gunicorn/gunicorn.pid"

umask == 0

user == None

group == None

tmp_upload_dir == None

preload_app == TRUE

worker_tmp_dir == "/dev/shm"

\* Mutant of raw_env: the two entries in the other order.
raw_env_swapped == <<"INFOKES_ENV=production", "PYTHONPATH=/opt/infokes/app">>

raw_env == <<"PYTHONPATH=/opt/infokes/app", "INFOKES_ENV=production">>

\* The namespace the file leaves behind when it is executed on a host whose
\* cpu_count() is n: every setting, by name.
LoadConfig(n) ==
    [ bind                     |-> bind,
      backlog                  |-> backlog,
      workers                  |-> workers(n),
      worker_class             |-> worker_class,
      worker_connections       |-> worker_connections,
      max_requests             |-> max_requests,
      max_requests_jitter      |-> max_requests_jitter,
      timeout                  |-> timeout,
      keepalive                |-> keepalive,
      limit_request_line       |-> limit_request_line,
      limit_request_fields     |-> limit_request_fields,
      limit_request_field_size |-> limit_request_field_size,
      proc_name                |-> proc_name,
      accesslog                |-> accesslog,
      errorlog                 |-> errorlog,
      loglevel                 |-> loglevel,
      access_log_format        |-> access_log_format,
      daemon                   |-> daemon,
      pidfile                  |-> pidfile,
      umask                    |-> umask,
      user                     |-> user,
      group                    |-> group,
      tmp_upload_dir           |-> tmp_upload_dir,
      preload_app              |-> preload_app,
      worker_tmp_dir           |-> worker_tmp_dir,
      raw_env                  |-> raw_env ]

\* The names the file binds to functions.
Hooks ==
    { "when_ready", "pre_fork", "post_fork", "pre_exec",
      "worker_int", "worker_abort", "pre_request", "post_request" }

(* ------------------------------- state -------------------------------- *)

VARIABLES
    host_cpus,      \* what multiprocessing.cpu_count() returns now
    detected,       \* what it returned when the file was loaded
    config,         \* the settings, as loaded
    server_log,     \* calls made on server.log
    worker_log,     \* calls made on worker.log, per worker (by pid)
    called,         \* the hook the runtime called last, with its arguments
    ncalls          \* hooks the runtime has called so far

vars == <<host_cpus, detected, config, server_log, worker_log, called, ncalls>>

\* log.info(msg) and log.debug(msg): one call recorded on the log.
log_info(log, msg) == Append(log, [level |-> "info", msg |-> msg])

log_debug(log, msg) == Append(log, [level |-> "debug", msg |-> msg])

\* The file has been executed once, on a host with 1..MaxCpu processors;
\* no hook has run.
Init ==
    /\ host_cpus \in 1..MaxCpu
    /\ detected = host_cpus
    /\ config = LoadConfig(detected)
    /\ server_log = <<>>
    /\ worker_log = [p \in Pids |-> <<>>]
    /\ called = [hook |-> "load", args |-> <<>>]
    /\ ncalls = 0

(* ------------------------------ messages ------------------------------ *)

\* "Infokes API server is ready and accepting connections"
ReadyMsg ==
    <<"I","n","f","o","k","e","s"," ","A","P","I"," ","s","e","r","v","e",
      "r"," ","i","s"," ","r","e","a","d","y"," ","a","n","d"," ","a","c",
      "c","e","p","t","i","n","g"," ","c","o","n","n","e","c","t","i","o",
      "n","s">>

\* Mutant of SpawnedMsg: the f prefix left out, the braces logged as written.
SpawnedMsg_plain(worker) ==
    <<"W","o","r","k","e","r"," ","{","w","o","r","k","e","r",".","p","i","d",
      "}"," ","s","p","a","w","n","e","d">>

\* f"Worker {worker.pid} spawned"
SpawnedMsg(worker) ==
    <<"W","o","r","k","e","r"," ">> \o str_int(worker.pid)
        \o <<" ","s","p","a","w","n","e","d">>

\* "Forked child, re-executing"
ReexecMsg ==
    <<"F","o","r","k","e","d"," ","c","h","i","l","d",","," ","r","e","-",
      "e","x","e","c","u","t","i","n","g">>

\* "Worker received INT or QUIT signal"
IntMsg ==
    <<"W","o","r","k","e","r"," ","r","e","c","e","i","v","e","d"," ","I",
      "N","T"," ","o","r"," ","Q","U","I","T"," ","s","i","g","n","a","l">>

\* "Worker received SIGABRT signal"
AbortMsg ==
    <<"W","o","r","k","e","r"," ","r","e","c","e","i","v","e","d"," ","S",
      "I","G","A","B","R","T"," ","s","i","g","n","a","l">>

\* Mutant of RequestMsg: the path left out.
RequestMsg_method_only(req) ==
    <<"R","e","q","u","e","s","t",":"," ">> \o req.method

\* f"Request: {req.method} {req.path}"
RequestMsg(req) ==
    <<"R","e","q","u","e","s","t",":"," ">> \o req.method \o <<" ">> \o req.path

\* f"Response: {resp.status}"
ResponseMsg(resp) ==
    <<"R","e","s","p","o","n","s","e",":"," ">> \o resp.status

(* ------------------------------- hooks -------------------------------- *)
(* Each hook is what the body of the Python function does to the settings  *)
(* and to the logs of the objects it is given.                             *)

\* Mutant of pre_exec: the hook also adds an entry to raw_env.
pre_exec_sets_env ==
    /\ server_log' = log_info(server_log, ReexecMsg)
    /\ config' = [config EXCEPT !.raw_env = Append(@, "INFOKES_REEXEC=1")]
    /\ UNCHANGED worker_log

\* Mutant of pre_fork: the body of post_fork, pasted.
pre_fork_logs(worker) ==
    /\ server_log' = log_info(server_log, SpawnedMsg(worker))
    /\ UNCHANGED <<config, worker_log>>

\* Mutant of post_fork: the line is written to the worker's log as well.
post_fork_logs_twice(worker) ==
    /\ server_log' = log_info(server_log, SpawnedMsg(worker))
    /\ worker_log' = [worker_log EXCEPT
                        ![worker.pid] =
                            log_info(worker_log[worker.pid], SpawnedMsg(worker))]
    /\ UNCHANGED config

\* Mutant of worker_abort: the line is logged as an error.
worker_abort_error(worker) ==
    /\ worker_log' = [worker_log EXCEPT
                        ![worker.pid] =
                            Append(worker_log[worker.pid],
                                   [level |-> "error", msg |-> AbortMsg])]
    /\ UNCHANGED <<config, server_log>>

\* Mutant of post_request: the request's path is logged after the status.
post_request_logs_path(worker, req, environ, resp) ==
    /\ worker_log' = [worker_log EXCEPT
                        ![worker.pid] =
                            log_debug(worker_log[worker.pid],
                                      ResponseMsg(resp) \o <<" ">> \o req.path)]
    /\ UNCHANGED <<config, server_log>>

when_ready ==
    /\ server_log' = log_info(server_log, ReadyMsg)
    /\ UNCHANGED <<config, worker_log>>

pre_fork(worker) ==
    UNCHANGED <<config, server_log, worker_log>>

post_fork(worker) ==
    /\ server_log' = log_info(server_log, SpawnedMsg(worker))
    /\ UNCHANGED <<config, worker_log>>

pre_exec ==
    /\ server_log' = log_info(server_log, ReexecMsg)
    /\ UNCHANGED <<config, worker_log>>

worker_int(worker) ==
    /\ worker_log' = [worker_log EXCEPT
                        ![worker.pid] = log_info(worker_log[worker.pid], IntMsg)]
    /\ UNCHANGED <<config, server_log>>

worker_abort(worker) ==
    /\ worker_log' = [worker_log EXCEPT
                        ![worker.pid] = log_info(worker_log[worker.pid], AbortMsg)]
    /\ UNCHANGED <<config, server_log>>

pre_request(worker, req) ==
    /\ worker_log' = [worker_log EXCEPT
                        ![worker.pid] =
                            log_debug(worker_log[worker.pid], RequestMsg(req))]
    /\ UNCHANGED <<config, server_log>>

post_request(worker, req, environ, resp) ==
    /\ worker_log' = [worker_log EXCEPT
                        ![worker.pid] =
                            log_debug(worker_log[worker.pid], ResponseMsg(resp))]
    /\ UNCHANGED <<config, server_log>>

(* ------------------------------ runtime ------------------------------- *)

\* The runtime looks the hook up by name in the loaded file and calls it
\* with these arguments.
Invoked(hook, args) ==
    /\ hook \in Hooks
    /\ ncalls < MaxCalls
    /\ ncalls' = ncalls + 1
    /\ called' = [hook |-> hook, args |-> args]
    /\ UNCHANGED <<host_cpus, detected>>

\* The host's parallelism changes after the file was loaded (processors
\* brought on line or taken off): a later cpu_count() would differ.
cpu_count_changes ==
    /\ \E n \in 1..MaxCpu : n # host_cpus /\ host_cpus' = n
    /\ UNCHANGED <<detected, config, server_log, worker_log, called, ncalls>>

Next ==
    \/ Invoked("when_ready", <<>>) /\ when_ready
    \/ \E worker \in Workers :
          Invoked("pre_fork", <<worker>>) /\ pre_fork(worker)
    \/ \E worker \in Workers :
          Invoked("post_fork", <<worker>>) /\ post_fork(worker)
    \/ Invoked("pre_exec", <<>>) /\ pre_exec
    \/ \E worker \in Workers :
          Invoked("worker_int", <<worker>>) /\ worker_int(worker)
    \/ \E worker \in Workers :
          Invoked("worker_abort", <<worker>>) /\ worker_abort(worker)
    \/ \E worker \in Workers, req \in Requests :
          Invoked("pre_request", <<worker, req>>) /\ pre_request(worker, req)
    \/ \E worker \in Workers, req \in Requests, environ \in Environs,
          resp \in Responses :
          /\ Invoked("post_request", <<worker, req, environ, resp>>)
          /\ post_request(worker, req, environ, resp)
    \/ cpu_count_changes

Spec == Init /\ [][Next]_vars

(* ------------------------------- claims ------------------------------- *)

\* The step is the runtime's call of hook h.
HookStep(h) == ncalls' = ncalls + 1 /\ called'.hook = h

\* new is old with exactly one call appended, made at this level.
AppendedOne(old, new, level) ==
    /\ Len(new) = Len(old) + 1
    /\ SubSeq(new, 1, Len(old)) = old
    /\ new[Len(new)].level = level

\* The logs of the workers other than the one with pid p are as they were.
OtherWorkersSame(p) == \A q \in Pids \ {p} : worker_log'[q] = worker_log[q]

RECURSIVE SumLen(_, _)
SumLen(f, S) ==
    IF S = {} THEN 0
    ELSE LET x == CHOOSE y \in S : TRUE IN Len(f[x]) + SumLen(f, S \ {x})

\* Log calls made so far, over the server's log and every worker's.
LogWrites == Len(server_log) + SumLen(worker_log, Pids)

SettingNames ==
    { "bind", "backlog", "workers", "worker_class", "worker_connections",
      "max_requests", "max_requests_jitter", "timeout", "keepalive",
      "limit_request_line", "limit_request_fields", "limit_request_field_size",
      "proc_name", "accesslog", "errorlog", "loglevel", "access_log_format",
      "daemon", "pidfile", "umask", "user", "group", "tmp_upload_dir",
      "preload_app", "worker_tmp_dir", "raw_env" }

\* C1: in every state, loaded and after any hooks, each declared setting
\* holds the literal written in the file: backlog 2048, timeout 30,
\* keepalive 2, and so on for every field but the computed workers.
Thm_C1 ==
    /\ DOMAIN config = SettingNames
    /\ config.bind = "0.0.0.0:8000"
    /\ config.backlog = 2048
    /\ config.worker_class = "gevent"
    /\ config.worker_connections = 1000
    /\ config.max_requests = 1000
    /\ config.max_requests_jitter = 50
    /\ config.timeout = 30
    /\ config.keepalive = 2
    /\ config.limit_request_line = 4096
    /\ config.limit_request_fields = 100
    /\ config.limit_request_field_size = 8190
    /\ config.proc_name = "infokes-api"
    /\ config.accesslog = "/var/log/gunicorn/access.log"
    /\ config.errorlog = "/var/log/gunicorn/error.log"
    /\ config.loglevel = "info"
    /\ config.access_log_format =
           "%(h)s %(l)s %(u)s %(t)s \"%(r)s\" %(s)s %(b)s \"%(f)s\" \"%(a)s\""
    /\ config.daemon = FALSE
    /\ config.pidfile = "/var/run/gunicorn/gunicorn.pid"
    /\ config.umask = 0
    /\ config.user = None
    /\ config.group = None
    /\ config.tmp_upload_dir = None
    /\ config.preload_app = TRUE
    /\ config.worker_tmp_dir = "/dev/shm"

\* The run's hooks have all been called and the settings are read.
Wit_C1 ==
    /\ ncalls = MaxCalls
    /\ config.backlog = 2048
    /\ config.timeout = 30
    /\ config.keepalive = 2

\* C2: the worker count is 2 * n + 1 for the parallelism n >= 1 detected at
\* load, hence odd and at least 3, and it stays that whatever the host's
\* parallelism becomes afterwards.
Thm_C2 ==
    /\ detected >= 1
    /\ config.workers = 2 * detected + 1
    /\ config.workers % 2 = 1
    /\ config.workers >= 3

\* Hooks have run on a host whose parallelism is no longer the one detected.
Wit_C2 ==
    /\ detected = MaxCpu
    /\ host_cpus # detected
    /\ ncalls > 0
    /\ config.workers = 2 * MaxCpu + 1

\* C3: raw_env has exactly two entries, PYTHONPATH first and INFOKES_ENV
\* second, and no entry twice.
Thm_C3 ==
    /\ Len(config.raw_env) = 2
    /\ config.raw_env[1] = "PYTHONPATH=/opt/infokes/app"
    /\ config.raw_env[2] = "INFOKES_ENV=production"
    /\ \A i, j \in 1..Len(config.raw_env) :
          i # j => config.raw_env[i] # config.raw_env[j]

\* The list is read after a worker was forked.
Wit_C3 ==
    /\ called.hook = "post_fork"
    /\ Len(config.raw_env) = 2
    /\ config.raw_env[1] # config.raw_env[2]

\* C4: a call of post_fork with a worker of pid p appends exactly one call
\* to the server's log, an info one whose text contains p in decimal (the
\* digits 4321 for pid 4321), and leaves every worker's log as it was.
Thm_C4 ==
    [][HookStep("post_fork") =>
          LET p == called'.args[1].pid
              text == server_log'[Len(server_log')].msg
          IN  /\ AppendedOne(server_log, server_log', "info")
              /\ Contains(text, str_int(p))
              /\ p = 4321 => Contains(text, <<"4","3","2","1">>)
              /\ worker_log' = worker_log]_vars

\* post_fork has just run for pid 4321 and the server's log ends with it.
Wit_C4 ==
    /\ called.hook = "post_fork"
    /\ called.args[1].pid = 4321
    /\ Len(server_log) >= 1
    /\ server_log[Len(server_log)].level = "info"
    /\ Contains(server_log[Len(server_log)].msg, <<"4","3","2","1">>)

\* C5: a call of pre_request with a request of method m and path q appends
\* exactly one call to that worker's log, a debug one whose text contains
\* both m and q, and writes to no other log.
Thm_C5 ==
    [][HookStep("pre_request") =>
          LET p == called'.args[1].pid
              req == called'.args[2]
              text == worker_log'[p][Len(worker_log'[p])].msg
          IN  /\ AppendedOne(worker_log[p], worker_log'[p], "debug")
              /\ Contains(text, req.method)
              /\ Contains(text, req.path)
              /\ OtherWorkersSame(p)
              /\ server_log' = server_log]_vars

\* pre_request has just run for GET /health and the worker's log ends with it.
Wit_C5 ==
    /\ called.hook = "pre_request"
    /\ called.args[2].method = <<"G","E","T">>
    /\ called.args[2].path = <<"/","h","e","a","l","t","h">>
    /\ LET log == worker_log[called.args[1].pid]
       IN  /\ Len(log) >= 1
           /\ log[Len(log)].level = "debug"
           /\ Contains(log[Len(log)].msg, <<"G","E","T">>)
           /\ Contains(log[Len(log)].msg, <<"/","h","e","a","l","t","h">>)

\* C6: a call of post_request with a response of status s appends exactly
\* one call to that worker's log, a debug one whose text contains s, and
\* the same step is what the hook does for every other request and environ.
Thm_C6 ==
    [][HookStep("post_request") =>
          LET worker == called'.args[1]
              p == worker.pid
              resp == called'.args[4]
              text == worker_log'[p][Len(worker_log'[p])].msg
          IN  /\ AppendedOne(worker_log[p], worker_log'[p], "debug")
              /\ Contains(text, resp.status)
              /\ OtherWorkersSame(p)
              /\ server_log' = server_log
              /\ \A req2 \in Requests, environ2 \in Environs :
                    post_request(worker, req2, environ2, resp)]_vars

\* post_request has just run for status 200 and the worker's log ends with it.
Wit_C6 ==
    /\ called.hook = "post_request"
    /\ called.args[4].status = <<"2","0","0">>
    /\ LET log == worker_log[called.args[1].pid]
       IN  /\ Len(log) >= 1
           /\ log[Len(log)].level = "debug"
           /\ Contains(log[Len(log)].msg, <<"2","0","0">>)

\* C7: a call of when_ready or pre_exec appends exactly one info call to the
\* server's log and none to a worker's; a call of worker_int or worker_abort
\* appends exactly one info call to that worker's log and none elsewhere.
Thm_C7 ==
    [][/\ (HookStep("when_ready") \/ HookStep("pre_exec")) =>
              /\ AppendedOne(server_log, server_log', "info")
              /\ worker_log' = worker_log
       /\ (HookStep("worker_int") \/ HookStep("worker_abort")) =>
              LET p == called'.args[1].pid
              IN  /\ AppendedOne(worker_log[p], worker_log'[p], "info")
                  /\ OtherWorkersSame(p)
                  /\ server_log' = server_log]_vars

\* when_ready ran, then worker_abort: one info call on each log.
Wit_C7 ==
    /\ called.hook = "worker_abort"
    /\ Len(server_log) = 1
    /\ server_log[1] = [level |-> "info", msg |-> ReadyMsg]
    /\ worker_log[called.args[1].pid] = <<[level |-> "info", msg |-> AbortMsg]>>

\* C8: a call of pre_fork, for every worker, leaves the server's log, every
\* worker's log and every setting as they were.
Thm_C8 ==
    [][HookStep("pre_fork") =>
          /\ server_log' = server_log
          /\ worker_log' = worker_log
          /\ config' = config]_vars

\* pre_fork has just run after a hook that logged.
Wit_C8 ==
    /\ called.hook = "pre_fork"
    /\ ncalls >= 2
    /\ LogWrites = ncalls - 1

\* C9: no step changes a setting: after any hooks, in any order, config is
\* what the load left.
Thm_C9 == [][config' = config]_vars

\* Every call of the run was made, the last one of pre_exec, on a host whose
\* parallelism has changed since the load.
Wit_C9 ==
    /\ ncalls = MaxCalls
    /\ called.hook = "pre_exec"
    /\ host_cpus # detected
    /\ config = LoadConfig(detected)

\* C10 as stated: the file defines exactly seven hooks, and a call of a
\* hook makes at most one log call.
Cex_C10 ==
    [][/\ Cardinality(Hooks) = 7
       /\ ncalls' = ncalls + 1 =>
              called'.hook \in Hooks /\ LogWrites' <= LogWrites + 1]_vars

\* C10, amended: the file defines exactly eight hooks, and a call of a hook
\* makes at most one log call.
Thm_C10 ==
    [][/\ Cardinality(Hooks) = 8
       /\ ncalls' = ncalls + 1 =>
              called'.hook \in Hooks /\ LogWrites' <= LogWrites + 1]_vars

\* Every call of the run logged, the last one post_request.
Wit_C10 ==
    /\ called.hook = "post_request"
    /\ ncalls = MaxCalls
    /\ LogWrites = MaxCalls

====
